---- MODULE Spec2Model ----
(***************************************************************************)
(* Model of the frame pipeline of src/main.py: the acquisition callback    *)
(* (on_new_image), the mode-change route (set_mode), the analysis worker   *)
(* (analysis_loop), the encoder worker (encoder_thread), the database      *)
(* writer (sqlite_writer_loop), the streaming generators (imagegenerator)  *)
(* and the shutdown handler (signal_handler), with the three queues, the   *)
(* broadcast cell (frame_id, global_jpeg_bytes, frame_condition) and the   *)
(* table measurements they share.                                          *)
(*                                                                         *)
(* Queue operations are atomic steps (queue.Queue serialises them under    *)
(* its own mutex).  Reads and writes of the module globals cX, cY and      *)
(* IS_TRIGGER_MODE are separate steps, since nothing in the source orders  *)
(* them between threads.  Coordinates and temperatures are integers in     *)
(* thousandths; rounded values are integers in hundredths; the clock       *)
(* counts ticks of 1/TicksPerSecond s.                                     *)
(***************************************************************************)
EXTENDS Integers, Sequences, FiniteSets, TLC

\* Python's None is the empty tuple; a value v that may also be None is <<v>>
None == <<>>
NoCamera == "None"

\* ---------------------------------------------------------------- constants
\* queue.Queue(maxsize=10), main.py:33
ProcessingMaxsize == 10
\* queue.Queue(maxsize=5), main.py:37
EncodeMaxsize == 5
\* if maxVal > 30, main.py:247
TriggerThreshold == 30
\* four TMP117 sensors (main.py:99-100), four zeros (main.py:174)
SensorCount == 4
\* pending_writes >= 50, main.py:147
CommitBatch == 50
\* current_time - last_commit_time > 1.0, in seconds, main.py:147
CommitInterval == 1

\* ------------------------------------------------------------------- bounds
\* rows write_queue holds at most (queue.Queue() is unbounded)
MaxRows == 2
\* publishes in one run (caps frame_id)
MaxVersion == 3
\* concurrently connected viewers
NumSessions == 2
\* resolution of the clock: ticks in one second
TicksPerSecond == 2
\* frames waiting on processing_queue when the persistence path is examined
QueuedFrames == 4
\* the last tick of a run
MaxTime == 3

\* ------------------------------------------------------------------- inputs
\* peak intensities (cv2.minMaxLoc's maxVal) of the frames the camera delivers:
\* the threshold itself and a value above it
Peaks == {30, 50}
\* a frame is known to the pipeline by its peak intensity only
Frames == [peak : Peaks]
\* what get_gaussian_center returns: (None, None) or a centre, in thousandths
FitResults == {None, <<41235, 17500>>}
\* one reading of the four sensors, in thousandths of a degree
SensorReadings == {<<21504, 21996, 22000, 20125>>}
\* what cv2.imencode does: returns (True, buffer), returns (False, _), or raises
EncodeOutcomes == {"ok", "ret_false", "raise"}
\* the values of request.args.get('mode', '').lower()
ModeArgs == {"trigger", "continuous", ""}

Sessions == 1..NumSessions
Unlocked == 0
EncoderThread == NumSessions + 1

VARIABLES
    Tis,                \* "camera" once TIS.TIS() succeeded, NoCamera otherwise
    temp_sensors,       \* number of sensors in the list temp_sensors (4 or 0)
    IS_TRIGGER_MODE,
    cX, cY,             \* None or <<coordinate>>
    processing_queue, write_queue, encode_queue,
    stop_event,
    frame_id, global_jpeg_bytes,
    frame_lock,         \* owner of frame_condition's lock: a session, EncoderThread or Unlocked
    cb_pc, frame_copy,  \* on_new_image
    camera,             \* None while the camera free-runs, else <<frames>>, the
                        \* frames it has yet to deliver in this run
    frame_to_process,   \* analysis_loop
    ids,                \* which frame object (by id()) each frame reference
                        \* names: None while the camera free-runs, else a
                        \* record, a field per holder of frames, 0 for none
    sm_pc, sm_mode, sm_response,            \* set_mode
    an_pc, new_c, temps, row_cx,            \* analysis_loop
    en_pc, frame, lx, ly, buffer,           \* encoder_thread
    ss_pc, my_last_frame_id, current_bytes, \* imagegenerator, per session
    pubs,               \* history: the bytes of every publish, in order
    wr_pc, conn, data_row,                  \* sqlite_writer_loop
    last_commit_time, pending_writes, current_time,
    store_up,           \* whether the durable store accepts statements
    measurements,       \* the committed rows of table measurements
    txn,                \* rows inserted on conn and not yet committed
    uncommitted,        \* history: INSERTs executed on conn since its last commit
    committed_at,       \* history: the time of the writer's last commit
    now,                \* the clock, in ticks
    sh_pc               \* signal_handler

vars == <<Tis, temp_sensors, IS_TRIGGER_MODE, cX, cY,
          processing_queue, write_queue, encode_queue, stop_event,
          frame_id, global_jpeg_bytes, frame_lock,
          cb_pc, frame_copy, camera, ids, sm_pc, sm_mode, sm_response,
          an_pc, new_c, temps, row_cx, frame_to_process,
          en_pc, frame, lx, ly, buffer,
          ss_pc, my_last_frame_id, current_bytes,
          pubs,
          wr_pc, conn, data_row, last_commit_time, pending_writes, current_time,
          store_up, measurements, txn, uncommitted, committed_at,
          now, sh_pc>>

sharedVars == <<Tis, temp_sensors, stop_event>>
cbVars == <<cb_pc, frame_copy, camera>>
smVars == <<sm_pc, sm_mode, sm_response>>
anVars == <<an_pc, new_c, temps, row_cx, frame_to_process>>
enVars == <<en_pc, frame, lx, ly, buffer>>
ssVars == <<ss_pc, my_last_frame_id, current_bytes>>
bcVars == <<frame_id, global_jpeg_bytes, frame_lock, pubs>>
wrVars == <<wr_pc, conn, data_row, last_commit_time, pending_writes, current_time>>
dbVars == <<store_up, measurements, txn, uncommitted, committed_at>>
sysVars == <<now, sh_pc>>

\* ------------------------------------------------------------------ helpers
\* put_nowait that enqueues at the head
PutNowait_Front(q, maxsize, item) == IF Len(q) < maxsize THEN <<item>> \o q ELSE q

\* put_nowait that enqueues nothing
PutNowait_Never(q, maxsize, item) == q

\* put_nowait without the test for a full queue
PutNowait_Unchecked(q, maxsize, item) == Append(q, item)

\* put_nowait that makes room by evicting the oldest item
PutNowait_DropOldest(q, maxsize, item) ==
    IF Len(q) < maxsize THEN Append(q, item) ELSE Append(Tail(q), item)

\* queue.Queue.put_nowait: appends unless the queue holds maxsize items, in
\* which case queue.Full is raised and the queue is left as it was
PutNowait(q, maxsize, item) == IF Len(q) < maxsize THEN Append(q, item) ELSE q

\* round(v, 2) of a value in thousandths, as a value in hundredths (half to even)
Round2(v) ==
    LET q == v \div 10
        r == v % 10
    IN  IF r < 5 THEN q
        ELSE IF r > 5 THEN q + 1
        ELSE IF q % 2 = 0 THEN q ELSE q + 1

\* [round(t, 2) for t in temps]
RoundAll(ts) == [i \in 1..Len(ts) |-> Round2(ts[i])]

\* ---------------------------------------------------------------------- Init
Init ==
    /\ Tis \in {"camera", NoCamera}
    /\ temp_sensors \in {SensorCount, 0}
    /\ IS_TRIGGER_MODE \in (IF Tis = NoCamera THEN {FALSE} ELSE BOOLEAN)
    /\ cX = None /\ cY = None
    /\ processing_queue = <<>> /\ write_queue = <<>> /\ encode_queue = <<>>
    /\ stop_event = FALSE
    /\ frame_id = 0 /\ global_jpeg_bytes = None /\ frame_lock = Unlocked
    /\ cb_pc = "idle" /\ frame_copy = None /\ camera = None
    /\ sm_pc = "idle" /\ sm_mode = "" /\ sm_response = ""
    /\ an_pc = "loop" /\ new_c = None /\ temps = None /\ row_cx = 0
    /\ frame_to_process = None /\ ids = None
    /\ en_pc = "loop" /\ frame = None /\ lx = None /\ ly = None /\ buffer = None
    /\ ss_pc = [s \in Sessions |-> "off"]
    /\ my_last_frame_id = [s \in Sessions |-> 0]
    /\ current_bytes = [s \in Sessions |-> None]
    /\ pubs = <<>>
    /\ wr_pc = "loop" /\ conn = "open" /\ data_row = None
    /\ last_commit_time = 0 /\ pending_writes = 0 /\ current_time = 0
    /\ store_up = TRUE /\ measurements = {} /\ txn = {}
    /\ uncommitted = 0 /\ committed_at = 0
    /\ now = 0 /\ sh_pc = "idle"

\* ------------------------------------------------- on_new_image (main.py:227)
\* the admission test without the mode
Admits_AnyMode(trigger, f) == f.peak > TriggerThreshold

\* the admission test with >= in place of >
Admits_AtThreshold(trigger, f) == trigger /\ f.peak >= TriggerThreshold

\* the mode test and the admission test of the callback (main.py:244-247)
Admits(trigger, f) == trigger /\ f.peak > TriggerThreshold

\* what tis.Get_image() can return to the next callback (main.py:231): any
\* frame or None from a free-running camera, else the next frame of the run
Delivery(cam) ==
    IF cam = None THEN {None} \cup {<<f>> : f \in Frames}
    ELSE IF cam[1] = <<>> THEN {}
    ELSE {<<Head(cam[1])>>}

\* raw_frame.copy() of main.py:234 makes a new object, to which frame_copy
\* refers, and put_nowait of main.py:238 puts that reference on encode_queue
Copied(i) ==
    IF i = None THEN None
    ELSE [i EXCEPT !.next = @ + 1, !.frame_copy = i.next,
                   !.encode_queue = PutNowait(@, EncodeMaxsize, i.next)]

\* put_nowait of main.py:249 puts the reference frame_copy holds on
\* processing_queue, and the callback returns
Offered(i) ==
    IF i = None THEN None
    ELSE [i EXCEPT !.processing_queue = PutNowait(@, ProcessingMaxsize, i.frame_copy),
                   !.frame_copy = 0]

\* a holder lets go of its reference, or a queue of its first
Dropped(i, holder) == IF i = None THEN None ELSE [i EXCEPT ![holder] = 0]
Got(i, queue, holder) ==
    IF i = None THEN None
    ELSE [i EXCEPT ![queue] = Tail(@), ![holder] = Head(i[queue])]

\* main.py:229-241: the camera calls back with its newest image; the copy is
\* offered to encode_queue
on_new_image_encode ==
    /\ Tis # NoCamera /\ cb_pc = "idle"
    /\ \E raw_frame \in Delivery(camera) :
         IF raw_frame = None
         THEN UNCHANGED <<cb_pc, frame_copy, encode_queue, ids>>
         ELSE /\ frame_copy' = raw_frame
              /\ encode_queue' = PutNowait(encode_queue, EncodeMaxsize, raw_frame[1])
              /\ ids' = Copied(ids)
              /\ cb_pc' = "mode"
    /\ camera' = IF camera = None THEN None ELSE <<Tail(camera[1])>>
    /\ UNCHANGED <<sharedVars, wrVars, dbVars, sysVars, IS_TRIGGER_MODE, cX, cY, processing_queue,
                   write_queue, smVars, anVars, enVars, ssVars, bcVars>>

\* main.py:244-247: read IS_TRIGGER_MODE, then test the frame's maximum
on_new_image_mode ==
    /\ cb_pc = "mode"
    /\ IF Admits(IS_TRIGGER_MODE, frame_copy[1])
       THEN cb_pc' = "put" /\ UNCHANGED <<frame_copy, ids>>
       ELSE cb_pc' = "idle" /\ frame_copy' = None
            /\ ids' = Dropped(ids, "frame_copy")
    /\ UNCHANGED <<camera, sharedVars, wrVars, dbVars, sysVars, IS_TRIGGER_MODE, cX, cY, processing_queue,
                   write_queue, encode_queue, smVars, anVars, enVars,
                   ssVars, bcVars>>

\* main.py:248-251: offer the same copy to processing_queue
on_new_image_put ==
    /\ cb_pc = "put"
    /\ processing_queue' = PutNowait(processing_queue, ProcessingMaxsize, frame_copy[1])
    /\ cb_pc' = "idle" /\ frame_copy' = None
    /\ ids' = Offered(ids)
    /\ UNCHANGED <<camera, sharedVars, wrVars, dbVars, sysVars, IS_TRIGGER_MODE, cX, cY, write_queue,
                   encode_queue, smVars, anVars, enVars, ssVars, bcVars>>

\* ------------------------------------------------------ set_mode (main.py:319)
\* the value IS_TRIGGER_MODE is given for a mode argument (main.py:325, 328)
ModeFlag(mode) == mode = "trigger"

\* main.py:321-324, 327, 331-332: a request arrives; an unknown mode answers
\* success at once, and Tis.Set_Property may raise, which answers the error
set_mode_request ==
    /\ sm_pc = "idle"
    /\ \E mode \in ModeArgs, raises \in BOOLEAN :
         /\ sm_mode' = mode
         /\ IF mode \notin {"trigger", "continuous"}
            THEN sm_pc' = "idle" /\ sm_response' = "success"
            ELSE IF Tis # NoCamera /\ raises
            THEN sm_pc' = "idle" /\ sm_response' = "error"
            ELSE sm_pc' = "flag" /\ sm_response' = ""
    /\ UNCHANGED <<sharedVars, wrVars, dbVars, sysVars, IS_TRIGGER_MODE, cX, cY, processing_queue,
                   write_queue, encode_queue, cbVars, ids, anVars, enVars, ssVars,
                   bcVars>>

\* main.py:325 and 328
set_mode_flag ==
    /\ sm_pc = "flag"
    /\ IS_TRIGGER_MODE' = ModeFlag(sm_mode)
    /\ IF sm_mode = "trigger"
       THEN sm_pc' = "idle" /\ sm_response' = "success"
       ELSE sm_pc' = "cX" /\ UNCHANGED sm_response
    /\ UNCHANGED <<sharedVars, wrVars, dbVars, sysVars, cX, cY, processing_queue, write_queue,
                   encode_queue, sm_mode, cbVars, ids, anVars, enVars, ssVars, bcVars>>

\* main.py:329, the store to cX
set_mode_cX ==
    /\ sm_pc = "cX"
    /\ cX' = None
    /\ sm_pc' = "cY"
    /\ UNCHANGED <<sharedVars, wrVars, dbVars, sysVars, IS_TRIGGER_MODE, cY, processing_queue, write_queue,
                   encode_queue, sm_mode, sm_response, cbVars, ids, anVars, enVars,
                   ssVars, bcVars>>

\* main.py:329, the store to cY
set_mode_cY ==
    /\ sm_pc = "cY"
    /\ cY' = None
    /\ sm_pc' = "clear"
    /\ UNCHANGED <<sharedVars, wrVars, dbVars, sysVars, IS_TRIGGER_MODE, cX, processing_queue, write_queue,
                   encode_queue, sm_mode, sm_response, cbVars, ids, anVars, enVars,
                   ssVars, bcVars>>

\* main.py:330-331
set_mode_clear ==
    /\ sm_pc = "clear"
    /\ processing_queue' = <<>>
    /\ ids' = IF ids = None THEN None ELSE [ids EXCEPT !.processing_queue = <<>>]
    /\ sm_pc' = "idle" /\ sm_response' = "success"
    /\ UNCHANGED <<sharedVars, wrVars, dbVars, sysVars, IS_TRIGGER_MODE, cX, cY, write_queue, encode_queue,
                   sm_mode, cbVars, anVars, enVars, ssVars, bcVars>>

\* ------------------------------------------------- analysis_loop (main.py:165)
\* temps of main.py:173-174: one reading per sensor of the list, or four zeros
\* when a read raises
ReadTemps(n, reading, raises) ==
    IF raises /\ n > 0 THEN [i \in 1..SensorCount |-> 0]
    ELSE [i \in 1..n |-> reading[i]]

\* datetime.now().strftime("%Y-%m-%d %H:%M:%S") of main.py:175: the clock
\* truncated to the second
Timestamp(t) == t \div TicksPerSecond

\* the tuple of main.py:176
Row(ts, x, y, tv) == [timestamp |-> ts, cx |-> x, cy |-> y, temps |-> RoundAll(tv)]

\* main.py:167, the loop test
analysis_loop_test ==
    /\ an_pc = "loop"
    /\ an_pc' = IF stop_event THEN "done" ELSE "get"
    /\ UNCHANGED <<sharedVars, wrVars, dbVars, sysVars, IS_TRIGGER_MODE, cX, cY, processing_queue,
                   write_queue, encode_queue, new_c, temps, row_cx,
                   frame_to_process, cbVars, ids, smVars, enVars, ssVars, bcVars>>

\* main.py:169-171, 177-178: take a frame and fit it, or time out on an empty
\* queue; a fit without a centre ends the iteration
analysis_loop_get ==
    /\ an_pc = "get"
    /\ IF processing_queue = <<>>
       THEN /\ an_pc' = "loop"
            /\ UNCHANGED <<processing_queue, new_c, frame_to_process, ids>>
       ELSE /\ Len(write_queue) < MaxRows
            /\ processing_queue' = Tail(processing_queue)
            /\ \E r \in FitResults :
                 /\ new_c' = r
                 /\ an_pc' = IF r = None THEN "loop" ELSE "cX"
                 /\ frame_to_process' = IF r = None THEN None
                                        ELSE <<Head(processing_queue)>>
                 /\ ids' = IF r = None
                           THEN Dropped(Got(ids, "processing_queue", "frame_to_process"),
                                        "frame_to_process")
                           ELSE Got(ids, "processing_queue", "frame_to_process")
    /\ UNCHANGED <<sharedVars, wrVars, dbVars, sysVars, IS_TRIGGER_MODE, cX, cY, write_queue, encode_queue,
                   temps, row_cx, cbVars, smVars, enVars, ssVars, bcVars>>

\* main.py:172, the store to cX
analysis_loop_cX ==
    /\ an_pc = "cX"
    /\ cX' = <<new_c[1]>>
    /\ an_pc' = "cY"
    /\ UNCHANGED <<sharedVars, wrVars, dbVars, sysVars, IS_TRIGGER_MODE, cY, processing_queue, write_queue,
                   encode_queue, new_c, temps, row_cx, frame_to_process,
                   cbVars, ids, smVars, enVars, ssVars, bcVars>>

\* main.py:172-174: the store to cY, then the sensors are read
analysis_loop_cY ==
    /\ an_pc = "cY"
    /\ cY' = <<new_c[2]>>
    /\ \E reading \in SensorReadings, raises \in BOOLEAN :
         temps' = ReadTemps(temp_sensors, reading, raises)
    /\ an_pc' = "roundX"
    /\ UNCHANGED <<sharedVars, wrVars, dbVars, sysVars, IS_TRIGGER_MODE, cX, processing_queue, write_queue,
                   encode_queue, new_c, row_cx, frame_to_process, cbVars, ids,
                   smVars, enVars, ssVars, bcVars>>

\* main.py:176, round(cX, 2) on the global; a None raises TypeError, which
\* main.py:179 swallows
analysis_loop_roundX ==
    /\ an_pc = "roundX"
    /\ IF cX = None
       THEN /\ an_pc' = "loop" /\ new_c' = None /\ temps' = None
            /\ frame_to_process' = None /\ UNCHANGED row_cx
            /\ ids' = Dropped(ids, "frame_to_process")
       ELSE /\ an_pc' = "roundY" /\ row_cx' = Round2(cX[1])
            /\ UNCHANGED <<new_c, temps, frame_to_process, ids>>
    /\ UNCHANGED <<sharedVars, wrVars, dbVars, sysVars, IS_TRIGGER_MODE, cX, cY, processing_queue,
                   write_queue, encode_queue, cbVars, smVars, enVars,
                   ssVars, bcVars>>

\* main.py:176-177, round(cY, 2) on the global and the put on write_queue
analysis_loop_put ==
    /\ an_pc = "roundY"
    /\ IF cY = None
       THEN UNCHANGED write_queue
       ELSE write_queue' = Append(write_queue, Row(Timestamp(now), row_cx, Round2(cY[1]), temps))
    /\ an_pc' = "loop" /\ new_c' = None /\ temps' = None /\ row_cx' = 0
    /\ frame_to_process' = None
    /\ ids' = Dropped(ids, "frame_to_process")
    /\ UNCHANGED <<sharedVars, wrVars, dbVars, sysVars, IS_TRIGGER_MODE, cX, cY, processing_queue,
                   encode_queue, cbVars, smVars, enVars, ssVars, bcVars>>

\* ------------------------------------------------ encoder_thread (main.py:182)
\* int(lx) of main.py:205, on a coordinate in thousandths
IntOf(v) == v \div 1000

\* buffer.tobytes() of main.py:197-213: the frame's colour map with the marker
\* of main.py:204-205 drawn at (int(lx), int(ly)) when both are known
Encode(f, x, y) ==
    IF x # None /\ y # None THEN <<f.peak, IntOf(x[1]), IntOf(y[1])>>
    ELSE <<f.peak>>

\* a publish that wakes nobody
NotifyAll_None(pcs) == pcs

\* Condition.notify_all: every thread blocked in wait() is made runnable
NotifyAll(pcs) == [s \in Sessions |-> IF pcs[s] = "waiting" THEN "woken" ELSE pcs[s]]

\* main.py:187, the loop test
encoder_thread_test ==
    /\ en_pc = "loop"
    /\ en_pc' = IF stop_event THEN "done" ELSE "get"
    /\ UNCHANGED <<sharedVars, wrVars, dbVars, sysVars, IS_TRIGGER_MODE, cX, cY, processing_queue,
                   write_queue, encode_queue, frame, lx, ly, buffer,
                   cbVars, ids, smVars, anVars, ssVars, bcVars>>

\* main.py:190-192: take a frame, or time out on an empty queue
encoder_thread_get ==
    /\ en_pc = "get"
    /\ IF encode_queue = <<>>
       THEN en_pc' = "loop" /\ UNCHANGED <<encode_queue, frame, ids>>
       ELSE /\ Len(pubs) < MaxVersion
            /\ frame' = <<Head(encode_queue)>>
            /\ encode_queue' = Tail(encode_queue)
            /\ ids' = Got(ids, "encode_queue", "frame")
            /\ en_pc' = "lx"
    /\ UNCHANGED <<sharedVars, wrVars, dbVars, sysVars, IS_TRIGGER_MODE, cX, cY, processing_queue,
                   write_queue, lx, ly, buffer, cbVars, smVars, anVars, ssVars,
                   bcVars>>

\* main.py:203, the load of cX
encoder_thread_lx ==
    /\ en_pc = "lx"
    /\ lx' = cX
    /\ en_pc' = "ly"
    /\ UNCHANGED <<sharedVars, wrVars, dbVars, sysVars, IS_TRIGGER_MODE, cX, cY, processing_queue,
                   write_queue, encode_queue, frame, ly, buffer, cbVars, ids, smVars,
                   anVars, ssVars, bcVars>>

\* the broadcast without the test of ret
AfterEncode_Unchecked(outcome) == IF outcome = "raise" THEN "loop" ELSE "publish"

\* where the encoder goes after cv2.imencode: `if ret:` of main.py:210 lets
\* only a returned True through to the broadcast, and main.py:217-218 catches
\* what was raised
AfterEncode(outcome) == IF outcome = "ok" THEN "publish" ELSE "loop"

\* main.py:203-210, 217-220: the load of cY, the overlay and the encoding;
\* buffer stays None when imencode returned False or something raised
encoder_thread_ly ==
    /\ en_pc = "ly"
    /\ \E outcome \in EncodeOutcomes :
         /\ en_pc' = AfterEncode(outcome)
         /\ buffer' = IF outcome = "ok" THEN Encode(frame[1], lx, cY) ELSE None
         /\ IF en_pc' = "loop"
            THEN /\ frame' = None /\ lx' = None /\ ly' = None
                 /\ ids' = Dropped(ids, "frame")
            ELSE ly' = cY /\ UNCHANGED <<frame, lx, ids>>
    /\ UNCHANGED <<sharedVars, wrVars, dbVars, sysVars, IS_TRIGGER_MODE, cX, cY, processing_queue,
                   write_queue, encode_queue, cbVars, smVars, anVars, ssVars,
                   bcVars>>

\* main.py:212-213: enter frame_condition and replace the current bytes
encoder_thread_publish ==
    /\ en_pc = "publish"
    /\ frame_lock = Unlocked
    /\ frame_lock' = EncoderThread
    /\ global_jpeg_bytes' = buffer
    /\ pubs' = Append(pubs, buffer)
    /\ en_pc' = "locked"
    /\ UNCHANGED <<sharedVars, wrVars, dbVars, sysVars, IS_TRIGGER_MODE, cX, cY, processing_queue,
                   write_queue, encode_queue, frame, lx, ly, buffer, frame_id,
                   cbVars, ids, smVars, anVars, ssVars>>

\* main.py:214-215, 220: count the frame, wake the waiters, leave the lock
encoder_thread_notify ==
    /\ en_pc = "locked"
    /\ frame_id' = frame_id + 1
    /\ ss_pc' = NotifyAll(ss_pc)
    /\ frame_lock' = Unlocked
    /\ en_pc' = "loop"
    /\ frame' = None /\ lx' = None /\ ly' = None /\ buffer' = None
    /\ ids' = Dropped(ids, "frame")
    /\ UNCHANGED <<sharedVars, wrVars, dbVars, sysVars, IS_TRIGGER_MODE, cX, cY, processing_queue,
                   write_queue, encode_queue, global_jpeg_bytes, pubs,
                   my_last_frame_id, current_bytes, cbVars, smVars, anVars>>

\* ------------------------------------------------ imagegenerator (main.py:257)
\* the predicate with >= in place of >
Newer_OrEqual(s) == frame_id >= my_last_frame_id[s] \/ stop_event

\* the predicate of main.py:268
Newer(s) == frame_id > my_last_frame_id[s] \/ stop_event

\* wait_for that gives the lock back before the caller copies the bytes
WaitFor_Unlocked(s) ==
    /\ ss_pc' = [ss_pc EXCEPT ![s] = IF Newer(s) THEN "ready" ELSE "waiting"]
    /\ frame_lock' = Unlocked

\* wait_for of main.py:268 with the lock held: go on when the predicate holds,
\* otherwise wait(), which releases the lock and blocks in one step
WaitFor(s) ==
    IF Newer(s)
    THEN ss_pc' = [ss_pc EXCEPT ![s] = "ready"] /\ frame_lock' = s
    ELSE ss_pc' = [ss_pc EXCEPT ![s] = "waiting"] /\ frame_lock' = Unlocked

\* main.py:293 and 260: a viewer connects and its generator starts
imagegenerator_start(s) ==
    /\ ss_pc[s] = "off"
    /\ ss_pc' = [ss_pc EXCEPT ![s] = "loop"]
    /\ my_last_frame_id' = [my_last_frame_id EXCEPT ![s] = 0]
    /\ current_bytes' = [current_bytes EXCEPT ![s] = None]
    /\ UNCHANGED <<sharedVars, wrVars, dbVars, sysVars, IS_TRIGGER_MODE, cX, cY, processing_queue,
                   write_queue, encode_queue, cbVars, ids, smVars, anVars, enVars,
                   bcVars>>

\* main.py:262-263, the loop test
imagegenerator_test(s) ==
    /\ ss_pc[s] = "loop"
    /\ IF stop_event
       THEN /\ ss_pc' = [ss_pc EXCEPT ![s] = "off"]
            /\ my_last_frame_id' = [my_last_frame_id EXCEPT ![s] = 0]
       ELSE /\ ss_pc' = [ss_pc EXCEPT ![s] = "enter"]
            /\ UNCHANGED my_last_frame_id
    /\ current_bytes' = [current_bytes EXCEPT ![s] = None]
    /\ UNCHANGED <<sharedVars, wrVars, dbVars, sysVars, IS_TRIGGER_MODE, cX, cY, processing_queue,
                   write_queue, encode_queue, cbVars, ids, smVars, anVars, enVars,
                   bcVars>>

\* main.py:266-268: enter frame_condition and call wait_for
imagegenerator_enter(s) ==
    /\ ss_pc[s] = "enter"
    /\ frame_lock = Unlocked
    /\ WaitFor(s)
    /\ UNCHANGED <<sharedVars, wrVars, dbVars, sysVars, IS_TRIGGER_MODE, cX, cY, processing_queue,
                   write_queue, encode_queue, my_last_frame_id, current_bytes,
                   frame_id, global_jpeg_bytes, pubs, cbVars, ids, smVars, anVars,
                   enVars>>

\* main.py:268: a notified waiter takes the lock again and tests the predicate
imagegenerator_woken(s) ==
    /\ ss_pc[s] = "woken"
    /\ frame_lock = Unlocked
    /\ WaitFor(s)
    /\ UNCHANGED <<sharedVars, wrVars, dbVars, sysVars, IS_TRIGGER_MODE, cX, cY, processing_queue,
                   write_queue, encode_queue, my_last_frame_id, current_bytes,
                   frame_id, global_jpeg_bytes, pubs, cbVars, ids, smVars, anVars,
                   enVars>>

\* a generator that goes on after its wait whatever stop_event is
Breaks_Never == FALSE

\* the test of main.py:270 after the wait
Breaks == stop_event

\* main.py:270-274: with the lock held, stop or copy the bytes and the version
imagegenerator_take(s) ==
    /\ ss_pc[s] = "ready"
    /\ IF Breaks
       THEN /\ ss_pc' = [ss_pc EXCEPT ![s] = "off"]
            /\ my_last_frame_id' = [my_last_frame_id EXCEPT ![s] = 0]
            /\ UNCHANGED current_bytes
       ELSE /\ ss_pc' = [ss_pc EXCEPT ![s] = "yield"]
            /\ current_bytes' = [current_bytes EXCEPT ![s] = global_jpeg_bytes]
            /\ my_last_frame_id' = [my_last_frame_id EXCEPT ![s] = frame_id]
    /\ frame_lock' = Unlocked
    /\ UNCHANGED <<sharedVars, wrVars, dbVars, sysVars, IS_TRIGGER_MODE, cX, cY, processing_queue,
                   write_queue, encode_queue, frame_id, global_jpeg_bytes, pubs,
                   cbVars, ids, smVars, anVars, enVars>>

\* main.py:277-284: the chunk is handed to the server; the viewer takes it and
\* asks for the next one, or has gone away (GeneratorExit)
imagegenerator_yield(s) ==
    /\ ss_pc[s] = "yield"
    /\ \E gone \in BOOLEAN :
         IF current_bytes[s] # None /\ gone
         THEN /\ ss_pc' = [ss_pc EXCEPT ![s] = "off"]
              /\ my_last_frame_id' = [my_last_frame_id EXCEPT ![s] = 0]
              /\ current_bytes' = [current_bytes EXCEPT ![s] = None]
         ELSE /\ ss_pc' = [ss_pc EXCEPT ![s] = "loop"]
              /\ UNCHANGED <<my_last_frame_id, current_bytes>>
    /\ UNCHANGED <<sharedVars, wrVars, dbVars, sysVars, IS_TRIGGER_MODE, cX, cY, processing_queue,
                   write_queue, encode_queue, cbVars, ids, smVars, anVars, enVars,
                   bcVars>>

\* -------------------------------------------- the clock and the durable store
\* time passes
tick ==
    /\ now < MaxTime
    /\ now' = now + 1
    /\ UNCHANGED <<sharedVars, wrVars, dbVars, sh_pc, IS_TRIGGER_MODE, cX, cY,
                   processing_queue, write_queue, encode_queue, cbVars, ids, smVars,
                   anVars, enVars, ssVars, bcVars>>

\* the database file stops accepting statements (sqlite3 raises on execute,
\* commit and connect), and accepts them again
store_fails ==
    /\ store_up /\ store_up' = FALSE
    /\ UNCHANGED <<sharedVars, wrVars, sysVars, measurements, txn, uncommitted,
                   committed_at, IS_TRIGGER_MODE, cX, cY, processing_queue,
                   write_queue, encode_queue, cbVars, ids, smVars, anVars, enVars,
                   ssVars, bcVars>>

store_recovers ==
    /\ ~store_up /\ store_up' = TRUE
    /\ UNCHANGED <<sharedVars, wrVars, sysVars, measurements, txn, uncommitted,
                   committed_at, IS_TRIGGER_MODE, cX, cY, processing_queue,
                   write_queue, encode_queue, cbVars, ids, smVars, anVars, enVars,
                   ssVars, bcVars>>

\* whether table has a row with this PRIMARY KEY (main.py:61)
HasKey(table, ts) == \E r \in table : r.timestamp = ts

\* INSERT that overwrites the row of the same key
InsertOrIgnore_Replace(stored, pending, row) ==
    {r \in pending : r.timestamp # row.timestamp} \cup {row}

\* INSERT OR IGNORE of main.py:143 on a connection that sees the committed rows
\* and its own pending ones: the new pending rows
InsertOrIgnore(stored, pending, row) ==
    IF HasKey(stored \cup pending, row.timestamp) THEN pending
    ELSE pending \cup {row}

\* ------------------------------------------- sqlite_writer_loop (main.py:134)
\* the commit test with > in place of >= on the row count
CommitDue_Late(pending, elapsed) ==
    pending > 0 /\ (elapsed > CommitInterval * TicksPerSecond \/ pending > CommitBatch)

\* the test of main.py:147
CommitDue(pending, elapsed) ==
    pending > 0 /\ (elapsed > CommitInterval * TicksPerSecond \/ pending >= CommitBatch)

\* an empty-queue timeout that commits only a full batch
EmptyCommits_FullBatch(pending) == pending >= CommitBatch

\* the test of main.py:152
EmptyCommits(pending) == pending > 0

\* whether a statement on conn succeeds: a closed connection raises
\* ProgrammingError, an unavailable store raises OperationalError
Succeeds(c, up) == c = "open" /\ up

\* main.py:139 and 162: the loop test; on stop_event the connection is closed,
\* which rolls back what it has not committed
sqlite_writer_loop_test ==
    /\ wr_pc = "loop"
    /\ IF stop_event
       THEN /\ wr_pc' = "done" /\ conn' = "closed"
            /\ txn' = {} /\ uncommitted' = 0
       ELSE /\ wr_pc' = "get"
            /\ UNCHANGED <<conn, txn, uncommitted>>
    /\ UNCHANGED <<sharedVars, sysVars, data_row, last_commit_time, pending_writes,
                   current_time, store_up, measurements, committed_at,
                   IS_TRIGGER_MODE, cX, cY, processing_queue, write_queue,
                   encode_queue, cbVars, ids, smVars, anVars, enVars, ssVars, bcVars>>

\* main.py:141 and 151-155: take a row, or time out on an empty queue and
\* commit what is pending; a commit that raises inside the handler of
\* queue.Empty is caught by no clause of main.py:140-161 and ends the thread
sqlite_writer_loop_get ==
    /\ wr_pc = "get"
    /\ IF write_queue # <<>>
       THEN /\ data_row' = <<Head(write_queue)>>
            /\ write_queue' = Tail(write_queue)
            /\ wr_pc' = "insert"
            /\ UNCHANGED <<pending_writes, measurements, txn, uncommitted,
                           committed_at>>
       ELSE /\ UNCHANGED <<data_row, write_queue>>
            /\ IF ~EmptyCommits(pending_writes)
               THEN /\ wr_pc' = "loop"
                    /\ UNCHANGED <<pending_writes, measurements, txn,
                                   uncommitted, committed_at>>
               ELSE IF Succeeds(conn, store_up)
               THEN /\ measurements' = measurements \cup txn
                    /\ txn' = {} /\ uncommitted' = 0 /\ committed_at' = now
                    /\ pending_writes' = 0
                    /\ wr_pc' = "loop"
               ELSE /\ wr_pc' = "dead"
                    /\ UNCHANGED <<pending_writes, measurements, txn,
                                   uncommitted, committed_at>>
    /\ UNCHANGED <<sharedVars, sysVars, conn, last_commit_time, current_time,
                   store_up, IS_TRIGGER_MODE, cX, cY, processing_queue,
                   encode_queue, cbVars, ids, smVars, anVars, enVars, ssVars, bcVars>>

\* main.py:142-146: insert the row, count it and read the clock; a statement
\* that raises leaves the row behind and goes to the handler of main.py:156
sqlite_writer_loop_insert ==
    /\ wr_pc = "insert"
    /\ IF Succeeds(conn, store_up)
       THEN /\ txn' = InsertOrIgnore(measurements, txn, data_row[1])
            /\ uncommitted' = uncommitted + 1
            /\ pending_writes' = pending_writes + 1
            /\ current_time' = now
            /\ wr_pc' = "commit"
       ELSE /\ wr_pc' = "except"
            /\ UNCHANGED <<txn, uncommitted, pending_writes, current_time>>
    /\ data_row' = None
    /\ UNCHANGED <<sharedVars, sysVars, conn, last_commit_time, store_up,
                   measurements, committed_at, IS_TRIGGER_MODE, cX, cY,
                   processing_queue, write_queue, encode_queue, cbVars, ids, smVars,
                   anVars, enVars, ssVars, bcVars>>

\* main.py:147-150: commit the batch when it is due
sqlite_writer_loop_commit ==
    /\ wr_pc = "commit"
    /\ IF ~CommitDue(pending_writes, current_time - last_commit_time)
       THEN /\ wr_pc' = "loop"
            /\ UNCHANGED <<last_commit_time, pending_writes, measurements, txn,
                           uncommitted, committed_at>>
       ELSE IF Succeeds(conn, store_up)
       THEN /\ measurements' = measurements \cup txn
            /\ txn' = {} /\ uncommitted' = 0 /\ committed_at' = now
            /\ last_commit_time' = current_time
            /\ pending_writes' = 0
            /\ wr_pc' = "loop"
       ELSE /\ wr_pc' = "except"
            /\ UNCHANGED <<last_commit_time, pending_writes, measurements, txn,
                           uncommitted, committed_at>>
    /\ UNCHANGED <<sharedVars, sysVars, conn, data_row, current_time, store_up,
                   IS_TRIGGER_MODE, cX, cY, processing_queue, write_queue,
                   encode_queue, cbVars, ids, smVars, anVars, enVars, ssVars, bcVars>>

\* main.py:156-161: close the connection, which rolls back what it has not
\* committed, sleep and connect again; a connect that raises leaves conn closed
sqlite_writer_loop_except ==
    /\ wr_pc = "except"
    /\ txn' = {} /\ uncommitted' = 0
    /\ conn' = IF store_up THEN "open" ELSE "closed"
    /\ wr_pc' = "loop"
    /\ UNCHANGED <<sharedVars, sysVars, data_row, last_commit_time, pending_writes,
                   current_time, store_up, measurements, committed_at,
                   IS_TRIGGER_MODE, cX, cY, processing_queue, write_queue,
                   encode_queue, cbVars, ids, smVars, anVars, enVars, ssVars, bcVars>>

\* ---------------------------------------------- signal_handler (main.py:367)
\* what the end of the process leaves of a thread: one that has returned stays
\* as it is, any other is stopped where it stands
Killed(pc) == IF pc \in {"done", "dead", "off"} THEN pc ELSE "killed"

\* main.py:369: SIGINT or SIGTERM arrives and stop_event is set
signal_handler_set ==
    /\ sh_pc = "idle"
    /\ stop_event' = TRUE
    /\ sh_pc' = "notify"
    /\ UNCHANGED <<Tis, temp_sensors, now, wrVars, dbVars, IS_TRIGGER_MODE, cX, cY,
                   processing_queue, write_queue, encode_queue, cbVars, ids, smVars,
                   anVars, enVars, ssVars, bcVars>>

\* main.py:370-371: enter frame_condition and wake every waiting generator
signal_handler_notify ==
    /\ sh_pc = "notify"
    /\ frame_lock = Unlocked
    /\ ss_pc' = NotifyAll(ss_pc)
    /\ sh_pc' = "stop"
    /\ UNCHANGED <<sharedVars, now, wrVars, dbVars, IS_TRIGGER_MODE, cX, cY,
                   processing_queue, write_queue, encode_queue, cbVars, ids, smVars,
                   anVars, enVars, my_last_frame_id, current_bytes, bcVars>>

\* main.py:372-373: the camera pipeline is stopped and sys.exit(0) ends the
\* process; every thread is a daemon (main.py:358-363) and the callback runs
\* on the pipeline's thread, so all of them end where they stand
signal_handler_exit ==
    /\ sh_pc = "stop"
    /\ sh_pc' = "exited"
    /\ cb_pc' = "killed" /\ sm_pc' = Killed(sm_pc)
    /\ an_pc' = Killed(an_pc) /\ en_pc' = Killed(en_pc) /\ wr_pc' = Killed(wr_pc)
    /\ ss_pc' = [s \in Sessions |-> Killed(ss_pc[s])]
    /\ frame_lock' = Unlocked
    /\ UNCHANGED <<sharedVars, now, dbVars, IS_TRIGGER_MODE, cX, cY,
                   processing_queue, write_queue, encode_queue, frame_copy,
                   camera, ids, frame_to_process,
                   sm_mode, sm_response, new_c, temps, row_cx, frame, lx, ly,
                   buffer, my_last_frame_id, current_bytes, frame_id,
                   global_jpeg_bytes, pubs, conn, data_row, last_commit_time,
                   pending_writes, current_time>>

\* ---------------------------------------------------------------------- Next
Next ==
    \/ on_new_image_encode \/ on_new_image_mode \/ on_new_image_put
    \/ set_mode_request \/ set_mode_flag \/ set_mode_cX \/ set_mode_cY
    \/ set_mode_clear
    \/ analysis_loop_test \/ analysis_loop_get \/ analysis_loop_cX
    \/ analysis_loop_cY \/ analysis_loop_roundX \/ analysis_loop_put

Spec == Init /\ [][Next]_vars

\* The visualization path: the camera runs in continuous mode and nobody
\* changes the mode, so the analysis worker stays idle
InitBroadcast ==
    /\ Init
    /\ Tis = "camera" /\ IS_TRIGGER_MODE = FALSE /\ temp_sensors = SensorCount

NextBroadcast ==
    \/ on_new_image_encode \/ on_new_image_mode
    \/ encoder_thread_test \/ encoder_thread_get \/ encoder_thread_lx
    \/ encoder_thread_ly \/ encoder_thread_publish \/ encoder_thread_notify
    \/ \E s \in Sessions :
         \/ imagegenerator_start(s) \/ imagegenerator_test(s)
         \/ imagegenerator_enter(s) \/ imagegenerator_woken(s)
         \/ imagegenerator_take(s) \/ imagegenerator_yield(s)

SpecBroadcast == InitBroadcast /\ [][NextBroadcast]_vars

\* The visualization path with a backlog: the camera has filled encode_queue
\* before the encoder first ran (five calls of on_new_image from InitBroadcast)
\* and then delivers nothing more while the encoder and the viewers run
Backlog == [i \in 1..EncodeMaxsize |-> [peak |-> IF i % 2 = 1 THEN 50 ELSE 30]]

InitBacklog ==
    /\ Tis = "camera" /\ IS_TRIGGER_MODE = FALSE /\ temp_sensors = SensorCount
    /\ cX = None /\ cY = None
    /\ processing_queue = <<>> /\ write_queue = <<>> /\ encode_queue = Backlog
    /\ stop_event = FALSE
    /\ frame_id = 0 /\ global_jpeg_bytes = None /\ frame_lock = Unlocked
    /\ cb_pc = "idle" /\ frame_copy = None /\ camera = None
    /\ sm_pc = "idle" /\ sm_mode = "" /\ sm_response = ""
    /\ an_pc = "loop" /\ new_c = None /\ temps = None /\ row_cx = 0
    /\ frame_to_process = None /\ ids = None
    /\ en_pc = "loop" /\ frame = None /\ lx = None /\ ly = None /\ buffer = None
    /\ ss_pc = [s \in Sessions |-> "off"]
    /\ my_last_frame_id = [s \in Sessions |-> 0]
    /\ current_bytes = [s \in Sessions |-> None]
    /\ pubs = <<>>
    /\ wr_pc = "loop" /\ conn = "open" /\ data_row = None
    /\ last_commit_time = 0 /\ pending_writes = 0 /\ current_time = 0
    /\ store_up = TRUE /\ measurements = {} /\ txn = {}
    /\ uncommitted = 0 /\ committed_at = 0
    /\ now = 0 /\ sh_pc = "idle"

NextBacklog ==
    \/ encoder_thread_test \/ encoder_thread_get \/ encoder_thread_lx
    \/ encoder_thread_ly \/ encoder_thread_publish \/ encoder_thread_notify
    \/ \E s \in Sessions :
         \/ imagegenerator_start(s) \/ imagegenerator_test(s)
         \/ imagegenerator_enter(s) \/ imagegenerator_woken(s)
         \/ imagegenerator_take(s) \/ imagegenerator_yield(s)

\* Fair scheduling of the threads: a worker or generator that can take its next
\* step takes it, and a thread that asks for frame_condition's lock gets it
\* when the lock keeps becoming free.  The camera, the viewers' connecting and
\* their taking of a chunk are left to the environment.
FairBroadcast ==
    /\ WF_vars(encoder_thread_test) /\ WF_vars(encoder_thread_get)
    /\ WF_vars(encoder_thread_lx) /\ WF_vars(encoder_thread_ly)
    /\ SF_vars(encoder_thread_publish) /\ WF_vars(encoder_thread_notify)
    /\ \A s \in Sessions :
         /\ WF_vars(imagegenerator_test(s)) /\ SF_vars(imagegenerator_enter(s))
         /\ SF_vars(imagegenerator_woken(s)) /\ WF_vars(imagegenerator_take(s))

SpecBacklogFair == InitBacklog /\ [][NextBacklog]_vars /\ FairBroadcast

\* The persistence path in the middle of a run: the camera has put frames on
\* processing_queue in Triggered mode and then pauses, and the writer either
\* has just started or has accepted CommitBatch - 2 rows since its last
\* commit, all stamped with the first second, of which INSERT OR IGNORE kept
\* the first
FirstRow == Row(0, Round2(41235), Round2(17500), <<21504, 21996, 22000, 20125>>)

InitWriter ==
    /\ Tis = "camera" /\ IS_TRIGGER_MODE = TRUE /\ temp_sensors = SensorCount
    /\ cX = <<41235>> /\ cY = <<17500>>
    /\ processing_queue = [i \in 1..QueuedFrames |-> [peak |-> 50]]
    /\ write_queue = <<>> /\ encode_queue = <<>>
    /\ stop_event = FALSE
    /\ frame_id = 0 /\ global_jpeg_bytes = None /\ frame_lock = Unlocked
    /\ cb_pc = "idle" /\ frame_copy = None /\ camera = None
    /\ sm_pc = "idle" /\ sm_mode = "" /\ sm_response = ""
    /\ an_pc = "loop" /\ new_c = None /\ temps = None /\ row_cx = 0
    /\ frame_to_process = None /\ ids = None
    /\ en_pc = "loop" /\ frame = None /\ lx = None /\ ly = None /\ buffer = None
    /\ ss_pc = [s \in Sessions |-> "off"]
    /\ my_last_frame_id = [s \in Sessions |-> 0]
    /\ current_bytes = [s \in Sessions |-> None]
    /\ pubs = <<>>
    /\ wr_pc = "loop" /\ conn = "open" /\ data_row = None
    /\ last_commit_time = 0 /\ current_time = 0
    /\ pending_writes \in {0, CommitBatch - 2}
    /\ uncommitted = pending_writes
    /\ txn = IF pending_writes = 0 THEN {} ELSE {FirstRow}
    /\ store_up = TRUE /\ measurements = {} /\ committed_at = 0
    /\ now = 0 /\ sh_pc = "idle"

NextWriter ==
    \/ analysis_loop_test \/ analysis_loop_get \/ analysis_loop_cX
    \/ analysis_loop_cY \/ analysis_loop_roundX \/ analysis_loop_put
    \/ sqlite_writer_loop_test \/ sqlite_writer_loop_get
    \/ sqlite_writer_loop_insert \/ sqlite_writer_loop_commit
    \/ sqlite_writer_loop_except
    \/ tick \/ store_fails \/ store_recovers

SpecWriter == InitWriter /\ [][NextWriter]_vars

\* Shutdown in the middle of a run: a frame waits on encode_queue, the writer
\* has inserted one row that it has not committed, the camera pauses, viewers
\* come and go, and the signal may arrive at any moment
InitShutdown ==
    /\ Tis = "camera" /\ IS_TRIGGER_MODE = TRUE /\ temp_sensors = SensorCount
    /\ cX = <<41235>> /\ cY = <<17500>>
    /\ processing_queue = <<>> /\ write_queue = <<>>
    /\ encode_queue = <<[peak |-> 50]>>
    /\ stop_event = FALSE
    /\ frame_id = 0 /\ global_jpeg_bytes = None /\ frame_lock = Unlocked
    /\ cb_pc = "idle" /\ frame_copy = None /\ camera = None
    /\ sm_pc = "idle" /\ sm_mode = "" /\ sm_response = ""
    /\ an_pc = "loop" /\ new_c = None /\ temps = None /\ row_cx = 0
    /\ frame_to_process = None /\ ids = None
    /\ en_pc = "loop" /\ frame = None /\ lx = None /\ ly = None /\ buffer = None
    /\ ss_pc = [s \in Sessions |-> "off"]
    /\ my_last_frame_id = [s \in Sessions |-> 0]
    /\ current_bytes = [s \in Sessions |-> None]
    /\ pubs = <<>>
    /\ wr_pc = "loop" /\ conn = "open" /\ data_row = None
    /\ last_commit_time = 0 /\ pending_writes = 1 /\ current_time = 0
    /\ store_up = TRUE /\ measurements = {} /\ txn = {FirstRow}
    /\ uncommitted = 1 /\ committed_at = 0
    /\ now = 0 /\ sh_pc = "idle"

NextShutdown ==
    \/ signal_handler_set \/ signal_handler_notify \/ signal_handler_exit
    \/ analysis_loop_test \/ analysis_loop_get
    \/ encoder_thread_test \/ encoder_thread_get \/ encoder_thread_lx
    \/ encoder_thread_ly \/ encoder_thread_publish \/ encoder_thread_notify
    \/ sqlite_writer_loop_test \/ sqlite_writer_loop_get
    \/ \E s \in Sessions :
         \/ imagegenerator_start(s) \/ imagegenerator_test(s)
         \/ imagegenerator_enter(s) \/ imagegenerator_woken(s)
         \/ imagegenerator_take(s) \/ imagegenerator_yield(s)

\* Fair scheduling at shutdown: every worker and generator that can take its
\* next step takes it, a thread that asks for frame_condition's lock gets it
\* when the lock keeps becoming free, and the handler, once entered, goes on
\* to its notify_all.  How long Stop_pipeline takes before sys.exit is left
\* open, as are the viewers' connecting and their taking of a chunk.
FairShutdown ==
    /\ FairBroadcast
    /\ WF_vars(analysis_loop_test) /\ WF_vars(analysis_loop_get)
    /\ WF_vars(sqlite_writer_loop_test) /\ WF_vars(sqlite_writer_loop_get)
    /\ SF_vars(signal_handler_notify)

SpecShutdownFair == InitShutdown /\ [][NextShutdown]_vars /\ FairShutdown

\* The visualization path while the other two paths are degraded: the store
\* is unavailable and stays so, a row waits on write_queue, and either the
\* mode is Triggered with processing_queue full and the analysis worker
\* stalled in a fit, or the mode is Continuous
InitDegraded ==
    /\ Tis = "camera" /\ temp_sensors = SensorCount
    /\ IS_TRIGGER_MODE \in BOOLEAN
    /\ cX = None /\ cY = None
    /\ processing_queue = IF IS_TRIGGER_MODE
                          THEN [i \in 1..ProcessingMaxsize |-> [peak |-> 50]]
                          ELSE <<>>
    /\ write_queue = <<FirstRow>> /\ encode_queue = <<>>
    /\ stop_event = FALSE
    /\ frame_id = 0 /\ global_jpeg_bytes = None /\ frame_lock = Unlocked
    /\ cb_pc = "idle" /\ frame_copy = None /\ camera = None
    /\ sm_pc = "idle" /\ sm_mode = "" /\ sm_response = ""
    /\ an_pc = "loop" /\ new_c = None /\ temps = None /\ row_cx = 0
    /\ frame_to_process = None /\ ids = None
    /\ en_pc = "loop" /\ frame = None /\ lx = None /\ ly = None /\ buffer = None
    /\ ss_pc = [s \in Sessions |-> "off"]
    /\ my_last_frame_id = [s \in Sessions |-> 0]
    /\ current_bytes = [s \in Sessions |-> None]
    /\ pubs = <<>>
    /\ wr_pc = "loop" /\ conn = "open" /\ data_row = None
    /\ last_commit_time = 0 /\ pending_writes = 0 /\ current_time = 0
    /\ store_up = FALSE /\ measurements = {} /\ txn = {}
    /\ uncommitted = 0 /\ committed_at = 0
    /\ now = 0 /\ sh_pc = "idle"

\* the camera delivers a frame (main.py:231-241 with raw_frame not None)
DeliversFrame == on_new_image_encode /\ frame_copy' # None

\* cv2.imencode returns True (main.py:208-210)
EncodesFrame == encoder_thread_ly /\ en_pc' = "publish"

NextDegraded ==
    \/ on_new_image_encode \/ on_new_image_mode \/ on_new_image_put
    \/ encoder_thread_test \/ encoder_thread_get \/ encoder_thread_lx
    \/ encoder_thread_ly \/ encoder_thread_publish \/ encoder_thread_notify
    \/ sqlite_writer_loop_test \/ sqlite_writer_loop_get
    \/ sqlite_writer_loop_insert \/ sqlite_writer_loop_except

\* Fair scheduling with a live camera: frames keep arriving, the callback, the
\* encoder and the writer take their steps, and encoding keeps succeeding
FairDegraded ==
    /\ WF_vars(DeliversFrame)
    /\ WF_vars(on_new_image_mode) /\ WF_vars(on_new_image_put)
    /\ WF_vars(encoder_thread_test) /\ WF_vars(encoder_thread_get)
    /\ WF_vars(encoder_thread_lx) /\ SF_vars(EncodesFrame)
    /\ SF_vars(encoder_thread_publish) /\ WF_vars(encoder_thread_notify)
    /\ WF_vars(sqlite_writer_loop_test) /\ WF_vars(sqlite_writer_loop_get)
    /\ WF_vars(sqlite_writer_loop_insert) /\ WF_vars(sqlite_writer_loop_except)

SpecDegradedFair == InitDegraded /\ [][NextDegraded]_vars /\ FairDegraded

\* A run of six frames through all three queues: the camera delivers the
\* frames of Run in Triggered mode, one more than encode_queue can hold, each
\* with a peak of its own and two of them above the threshold, while the
\* three workers run
Run == [i \in 1..(EncodeMaxsize + 1) |->
          [peak |-> CASE i = 1 -> 50 [] i = 2 -> 20 [] i = 3 -> 30
                      [] i = 4 -> 70 [] i = 5 -> 10 [] OTHER -> 25]]

InitRun ==
    /\ Tis = "camera" /\ IS_TRIGGER_MODE = TRUE /\ temp_sensors = SensorCount
    /\ cX = None /\ cY = None
    /\ processing_queue = <<>> /\ write_queue = <<>> /\ encode_queue = <<>>
    /\ stop_event = FALSE
    /\ frame_id = 0 /\ global_jpeg_bytes = None /\ frame_lock = Unlocked
    /\ cb_pc = "idle" /\ frame_copy = None /\ camera = <<Run>>
    /\ sm_pc = "idle" /\ sm_mode = "" /\ sm_response = ""
    /\ an_pc = "loop" /\ new_c = None /\ temps = None /\ row_cx = 0
    /\ frame_to_process = None /\ ids = None
    /\ en_pc = "loop" /\ frame = None /\ lx = None /\ ly = None /\ buffer = None
    /\ ss_pc = [s \in Sessions |-> "off"]
    /\ my_last_frame_id = [s \in Sessions |-> 0]
    /\ current_bytes = [s \in Sessions |-> None]
    /\ pubs = <<>>
    /\ wr_pc = "loop" /\ conn = "open" /\ data_row = None
    /\ last_commit_time = 0 /\ pending_writes = 0 /\ current_time = 0
    /\ store_up = TRUE /\ measurements = {} /\ txn = {}
    /\ uncommitted = 0 /\ committed_at = 0
    /\ now = 0 /\ sh_pc = "idle"

NextRun ==
    \/ on_new_image_encode \/ on_new_image_mode \/ on_new_image_put
    \/ analysis_loop_test \/ analysis_loop_get \/ analysis_loop_cX
    \/ analysis_loop_cY \/ analysis_loop_roundX \/ analysis_loop_put
    \/ encoder_thread_test \/ encoder_thread_get \/ encoder_thread_lx
    \/ encoder_thread_ly \/ encoder_thread_publish \/ encoder_thread_notify
    \/ sqlite_writer_loop_test \/ sqlite_writer_loop_get
    \/ sqlite_writer_loop_insert \/ sqlite_writer_loop_commit

SpecRun == InitRun /\ [][NextRun]_vars

\* The same run with the frame objects followed: no frame exists at the
\* start, the callback's copy of the k-th delivery is object k, and the
\* callback, the analysis worker and the encoder run
NoFrames ==
    [next |-> 1, frame_copy |-> 0, encode_queue |-> <<>>,
     processing_queue |-> <<>>, frame |-> 0, frame_to_process |-> 0]

InitOwnership ==
    /\ Tis = "camera" /\ IS_TRIGGER_MODE = TRUE /\ temp_sensors = SensorCount
    /\ cX = None /\ cY = None
    /\ processing_queue = <<>> /\ write_queue = <<>> /\ encode_queue = <<>>
    /\ stop_event = FALSE
    /\ frame_id = 0 /\ global_jpeg_bytes = None /\ frame_lock = Unlocked
    /\ cb_pc = "idle" /\ frame_copy = None /\ camera = <<Run>>
    /\ sm_pc = "idle" /\ sm_mode = "" /\ sm_response = ""
    /\ an_pc = "loop" /\ new_c = None /\ temps = None /\ row_cx = 0
    /\ frame_to_process = None /\ ids = NoFrames
    /\ en_pc = "loop" /\ frame = None /\ lx = None /\ ly = None /\ buffer = None
    /\ ss_pc = [s \in Sessions |-> "off"]
    /\ my_last_frame_id = [s \in Sessions |-> 0]
    /\ current_bytes = [s \in Sessions |-> None]
    /\ pubs = <<>>
    /\ wr_pc = "loop" /\ conn = "open" /\ data_row = None
    /\ last_commit_time = 0 /\ pending_writes = 0 /\ current_time = 0
    /\ store_up = TRUE /\ measurements = {} /\ txn = {}
    /\ uncommitted = 0 /\ committed_at = 0
    /\ now = 0 /\ sh_pc = "idle"

NextOwnership ==
    \/ on_new_image_encode \/ on_new_image_mode \/ on_new_image_put
    \/ analysis_loop_test \/ analysis_loop_get \/ analysis_loop_cX
    \/ analysis_loop_cY \/ analysis_loop_roundX \/ analysis_loop_put
    \/ encoder_thread_test \/ encoder_thread_get \/ encoder_thread_lx
    \/ encoder_thread_ly \/ encoder_thread_publish \/ encoder_thread_notify

SpecOwnership == InitOwnership /\ [][NextOwnership]_vars

\* ==================================================================== claims

\* ---- C1 ----------------------------------------------------------------
\* C1: in every reachable state processing_queue holds at most 10 items and
\* encode_queue holds at most 5 items.
C1_QueuesBounded ==
    /\ Len(processing_queue) <= ProcessingMaxsize
    /\ Len(encode_queue) <= EncodeMaxsize

\* both queues are full at once while the callback is about to offer one more
\* frame to processing_queue
C1_Witness ==
    /\ Len(processing_queue) = ProcessingMaxsize
    /\ Len(encode_queue) = EncodeMaxsize
    /\ cb_pc = "put"

\* ---- C2 ----------------------------------------------------------------
\* the callback's offer to encode_queue, and its offer to processing_queue
OffersEncode == cb_pc = "idle" /\ cb_pc' = "mode"
OffersProcessing == cb_pc = "put" /\ cb_pc' = "idle"

\* C2: an offer to a queue that is at capacity is always possible (the
\* callback does not block), the callback goes on to its next statement (it
\* does not raise), and the queue is afterwards exactly what it was before:
\* the incoming frame is discarded and no queued item is evicted or moved.
C2_DropNewest ==
    /\ [](cb_pc = "put" => ENABLED on_new_image_put)
    /\ [](cb_pc = "idle" /\ Tis # NoCamera => ENABLED on_new_image_encode)
    /\ [][/\ OffersEncode /\ Len(encode_queue) = EncodeMaxsize
             => encode_queue' = encode_queue
          /\ OffersProcessing /\ Len(processing_queue) = ProcessingMaxsize
             => processing_queue' = processing_queue]_vars

\* a frame was offered to the full encode_queue whose oldest item differs from
\* its newest, and the same frame is about to be offered to the full
\* processing_queue
C2_Witness ==
    /\ cb_pc = "put"
    /\ Len(processing_queue) = ProcessingMaxsize
    /\ Len(encode_queue) = EncodeMaxsize
    /\ encode_queue[1] # encode_queue[EncodeMaxsize]
    /\ encode_queue[EncodeMaxsize] # frame_copy[1]

\* ---- C3 ----------------------------------------------------------------
\* the version and the bytes the broadcast cell holds after the publishes so far
CellMatchesPublishes ==
    /\ frame_id = Len(pubs)
    /\ global_jpeg_bytes = IF pubs = <<>> THEN None ELSE pubs[Len(pubs)]

\* C3: frame_id starts at 0 and, whenever the encoder is outside its critical
\* section, equals the number of publishes with global_jpeg_bytes being the
\* bytes of the last one; frame_id changes only in the encoder's step inside
\* frame_condition, by exactly +1, after the bytes were replaced by an encoded
\* buffer in the same critical section; an iteration whose encoding failed or
\* raised changes neither.
C3_VersionCountsPublishes ==
    /\ [](frame_lock # EncoderThread => CellMatchesPublishes)
    /\ [][/\ frame_id' # frame_id
             => /\ frame_id' = frame_id + 1
                /\ en_pc = "locked" /\ frame_lock = EncoderThread
                /\ buffer # None /\ global_jpeg_bytes = buffer
                /\ pubs[Len(pubs)] = buffer
          /\ global_jpeg_bytes' # global_jpeg_bytes
             => en_pc = "publish" /\ frame_lock' = EncoderThread
          /\ en_pc = "ly" /\ en_pc' = "loop"
             => frame_id' = frame_id /\ global_jpeg_bytes' = global_jpeg_bytes
          /\ frame_id' >= frame_id]_vars

\* two publishes are complete and the encoder has a third buffer to publish
C3_Witness ==
    /\ frame_id = 2 /\ en_pc = "publish" /\ frame_lock = Unlocked
    /\ pubs[1] # pubs[2]

\* ---- C4 ----------------------------------------------------------------
\* session s copies the bytes and the version (main.py:273-274)
Observes(s) == ss_pc[s] = "ready" /\ ss_pc'[s] = "yield"

\* C4: every version a session records is greater than the one it recorded
\* before and is at most the number of publishes performed so far; between
\* observations its record does not change while the generator lives.
C4_ObservedVersionsIncrease ==
    /\ [](\A s \in Sessions : my_last_frame_id[s] <= Len(pubs))
    /\ [][\A s \in Sessions :
            /\ Observes(s)
               => /\ my_last_frame_id'[s] > my_last_frame_id[s]
                  /\ my_last_frame_id'[s] <= Len(pubs')
            /\ ~Observes(s) /\ ss_pc'[s] # "off"
               => my_last_frame_id'[s] = my_last_frame_id[s]]_vars

\* after three publishes one session still holds version 1, which it observed
\* from 0, and the other holds version 3
C4_Witness ==
    /\ my_last_frame_id[1] = 1 /\ ss_pc[1] = "yield"
    /\ my_last_frame_id[2] = 3 /\ ss_pc[2] = "yield"
    /\ frame_id = 3

\* ---- C5 ----------------------------------------------------------------
\* C5: the pair a session takes when its wait returns is the pair of the most
\* recent publish: the version is the number of publishes so far and the
\* bytes are those of that publish; and while a session holds a pair, its
\* bytes are the bytes published under its version, so that two sessions
\* holding the same version hold identical bytes.
C5_ConsistentPair ==
    /\ [](\A s \in Sessions :
            ss_pc[s] = "yield"
            => /\ my_last_frame_id[s] \in 1..Len(pubs)
               /\ current_bytes[s] = pubs[my_last_frame_id[s]])
    /\ [](\A s, t \in Sessions :
            ss_pc[s] = "yield" /\ ss_pc[t] = "yield"
            /\ my_last_frame_id[s] = my_last_frame_id[t]
            => current_bytes[s] = current_bytes[t])
    /\ [][\A s \in Sessions :
            Observes(s)
            => /\ my_last_frame_id'[s] = Len(pubs)
               /\ current_bytes'[s] = pubs[Len(pubs)]]_vars

\* both sessions hold version 3, whose bytes differ from those of version 2
C5_Witness ==
    /\ \A s \in Sessions : ss_pc[s] = "yield" /\ my_last_frame_id[s] = 3
    /\ Len(pubs) = 3 /\ pubs[2] # pubs[3]
    /\ current_bytes[1] = pubs[3]

\* ---- C6 ----------------------------------------------------------------
\* session s is inside the wait of main.py:266-268
InWait(s) == ss_pc[s] \in {"enter", "waiting", "woken", "ready"}

\* C6: under fair scheduling and without shutdown, a session that is in its
\* wait when the version is v goes on to observe a version of at least v: no
\* publish leaves a waiting session blocked.
C6_NoLostWakeup ==
    \A s \in Sessions : \A v \in 0..MaxVersion :
        (InWait(s) /\ frame_id = v) ~> (my_last_frame_id[s] >= v \/ stop_event)

\* a session blocked in wait() on version 1 has just been woken by the publish
\* of version 2
C6_Witness ==
    \E s \in Sessions :
        ss_pc[s] = "woken" /\ my_last_frame_id[s] = 1 /\ frame_id = 2

\* ---- C7 ----------------------------------------------------------------
\* the analysis worker ends an iteration whose fit returned a centre
EndsFittedIteration == an_pc \in {"cX", "cY", "roundX", "roundY"} /\ an_pc' = "loop"
\* the analysis worker ends an iteration whose fit returned no centre
EndsFailedIteration ==
    an_pc = "get" /\ an_pc' = "loop" /\ processing_queue' # processing_queue

\* C7: an iteration of the analysis worker whose fit succeeded puts exactly
\* one Measurement on write_queue, one whose fit failed puts none, and nothing
\* else changes write_queue.
C7_OneRowPerFit ==
    [][/\ EndsFittedIteration => Len(write_queue') = Len(write_queue) + 1
       /\ EndsFailedIteration => write_queue' = write_queue
       /\ write_queue' # write_queue => EndsFittedIteration]_vars

\* ---- C8 ----------------------------------------------------------------
\* C8: every Measurement on write_queue carries four sensor readings, and they
\* are four zeros when the sensors could not be initialised.
C8_FourReadings ==
    \A i \in 1..Len(write_queue) :
        /\ Len(write_queue[i].temps) = SensorCount
        /\ temp_sensors = 0 => write_queue[i].temps = [k \in 1..SensorCount |-> 0]

\* ---- C9 ----------------------------------------------------------------
\* the callback's test of the mode and of the frame's maximum
TestsAdmission == cb_pc = "mode" /\ cb_pc' # "mode"

\* C9: the callback goes on to offer a frame to processing_queue exactly when
\* the mode it reads is Triggered and the frame's peak is above 30, and the
\* offer enqueues the frame exactly when the queue is below capacity; nothing
\* else adds to processing_queue, so every frame on it has a peak above 30.
C9_AdmissionGate ==
    /\ [](\A i \in 1..Len(processing_queue) : processing_queue[i].peak > 30)
    /\ [][/\ TestsAdmission
             => (cb_pc' = "put" <=> IS_TRIGGER_MODE /\ frame_copy[1].peak > 30)
          /\ OffersProcessing
             => /\ frame_copy[1].peak > 30
                /\ IF Len(processing_queue) < ProcessingMaxsize
                   THEN processing_queue' = Append(processing_queue, frame_copy[1])
                   ELSE processing_queue' = processing_queue
          /\ Len(processing_queue') > Len(processing_queue)
             => OffersProcessing]_vars

\* in Triggered mode the callback holds a frame with peak 30 while a frame
\* with peak 50 is queued and the analysis worker works on another
C9_Witness ==
    /\ cb_pc = "mode" /\ frame_copy[1].peak = 30 /\ IS_TRIGGER_MODE
    /\ processing_queue # <<>> /\ processing_queue[1].peak = 50
    /\ an_pc = "cX"

\* ---- C10 ---------------------------------------------------------------
\* set_mode returns its response to a request for Continuous or Triggered
Returns ==
    /\ sm_pc' = "idle" /\ sm_response' # ""
    /\ sm_mode' \in {"trigger", "continuous"}
    /\ <<sm_pc, sm_mode, sm_response>>' # <<sm_pc, sm_mode, sm_response>>

\* C10: when set_mode returns from a request for Continuous or Triggered, the
\* mode is the requested one; for Continuous the analysis queue is then empty.
C10_ModeSetOnReturn ==
    [][Returns
       => /\ IS_TRIGGER_MODE' = (sm_mode' = "trigger")
          /\ sm_mode' = "continuous" => processing_queue' = <<>>]_vars

\* ---- C11 ---------------------------------------------------------------
\* the commit test of the writer falls due by the claim's measure: the rows
\* inserted since the last commit number CommitBatch, or the row just accepted
\* came more than CommitInterval after the last commit
BatchDue ==
    \/ uncommitted >= CommitBatch
    \/ current_time - committed_at > CommitInterval * TicksPerSecond

\* the writer's insert step (main.py:142-146) and its commit test (main.py:147)
Inserts == wr_pc = "insert" /\ wr_pc' # "insert"
TestsCommit == wr_pc = "commit" /\ wr_pc' # "commit"

\* the whole pending batch becomes durable and the counts return to 0
CommitsBatch ==
    /\ measurements' = measurements \cup txn
    /\ txn' = {} /\ uncommitted' = 0 /\ pending_writes' = 0

\* C11: the step after an accepted insert is the commit test of the same
\* iteration; when the batch is due there and the commit does not raise (a
\* commit that raises is the failure case of C13), the whole pending batch is
\* committed and the pending count is 0 afterwards; the rows inserted and not
\* committed never number more than 50 and never more than pending_writes.
C11_BatchCommit ==
    /\ [](uncommitted <= CommitBatch /\ uncommitted <= pending_writes)
    /\ [][/\ Inserts /\ Succeeds(conn, store_up)
             => wr_pc' = "commit" /\ uncommitted' = uncommitted + 1
          /\ TestsCommit /\ BatchDue /\ Succeeds(conn, store_up)
             => CommitsBatch /\ wr_pc' = "loop"]_vars

\* the fiftieth row of a batch was accepted within the commit interval and
\* the commit test is next
C11_Witness ==
    /\ wr_pc = "commit" /\ uncommitted = CommitBatch
    /\ pending_writes = CommitBatch
    /\ current_time - last_commit_time <= CommitInterval * TicksPerSecond
    /\ Succeeds(conn, store_up)

\* ---- C12 ---------------------------------------------------------------
\* the writer's dequeue times out on an empty write_queue
TimesOut == wr_pc = "get" /\ write_queue = <<>> /\ wr_pc' # "get"

\* C12: when the dequeue times out while rows are pending and the commit does
\* not raise (a commit that raises is the failure case of C13), the pending
\* rows are committed in that step, before the next dequeue: afterwards the
\* connection holds no uncommitted row.
C12_TimeoutCommits ==
    [][TimesOut /\ pending_writes > 0 /\ Succeeds(conn, store_up)
       => /\ measurements' = measurements \cup txn
          /\ txn' = {} /\ uncommitted' = 0 /\ pending_writes' = 0
          /\ wr_pc' = "loop"]_vars

\* the writer waits on an empty queue with a batch of one row pending that
\* is not yet due, the store being available
C12_Witness ==
    /\ wr_pc = "get" /\ write_queue = <<>>
    /\ uncommitted = 1 /\ txn # {} /\ pending_writes = 1
    /\ Succeeds(conn, store_up)

\* ---- C13 ---------------------------------------------------------------
\* C13: no failure of the store ends the writer thread, and a row dequeued
\* while the store is available is inserted.
C13_WriterRecovers ==
    /\ [](wr_pc # "dead")
    /\ [][Inserts /\ store_up => wr_pc' = "commit"]_vars

\* ---- C19 ---------------------------------------------------------------
\* the rows a statement on conn sees
Visible == measurements \cup txn

\* C19: the rows of table measurements, committed or pending, never include
\* two with the same timestamp; an insert of a row whose timestamp is already
\* there does not raise and leaves the committed and the pending rows as they
\* were.
C19_IdempotentInsert ==
    /\ [](\A r1, r2 \in Visible : r1.timestamp = r2.timestamp => r1 = r2)
    /\ [][Inserts /\ Succeeds(conn, store_up)
           /\ HasKey(Visible, data_row[1].timestamp)
           => /\ wr_pc' = "commit"
              /\ txn' = txn /\ measurements' = measurements]_vars

\* the writer is about to insert a row whose timestamp is that of a committed
\* row with other readings
C19_Witness ==
    /\ wr_pc = "insert" /\ Succeeds(conn, store_up)
    /\ \E r \in measurements :
         r.timestamp = data_row[1].timestamp /\ r # data_row[1]

\* ---- C14 ---------------------------------------------------------------
\* the writer thread ends: it returns from its loop or the process exits
WriterEnds == wr_pc \notin {"done", "dead", "killed"} /\ wr_pc' \in {"done", "killed"}

\* C14: when the writer ends after the shutdown signal, it has committed every
\* row it inserted: the connection holds no uncommitted row at that moment.
C14_ShutdownFlushes == [][WriterEnds => uncommitted = 0]_vars

\* ---- C15 ---------------------------------------------------------------
\* a thread that has ended
Ended(pc) == pc \in {"done", "dead", "off", "killed"}

\* C15: under fair scheduling, once stop_event is set every session that is
\* in its wait ends, and never yields a chunk on the way; each of the three
\* workers ends, and none begins a dequeue after the signal, so that a worker
\* finishes at most the dequeue it was in.
C15_ShutdownTerminates ==
    /\ \A s \in Sessions : (stop_event /\ InWait(s)) ~> Ended(ss_pc[s])
    /\ stop_event ~> (Ended(an_pc) /\ Ended(en_pc) /\ Ended(wr_pc))
    /\ [][stop_event
          => /\ \A s \in Sessions : InWait(s) => ss_pc'[s] # "yield"
             /\ an_pc' = "get" => an_pc = "get"
             /\ en_pc' = "get" => en_pc = "get"
             /\ wr_pc' = "get" => wr_pc = "get"]_vars

\* the signal has been raised and the handler has called notify_all: one
\* session, blocked on the current version, is woken by it, another is about
\* to enter its wait, and the encoder is in a dequeue that will return a frame
C15_Witness ==
    /\ stop_event /\ sh_pc = "stop"
    /\ ss_pc[1] = "woken" /\ my_last_frame_id[1] = frame_id
    /\ ss_pc[2] = "enter"
    /\ en_pc = "get" /\ encode_queue # <<>>

\* ---- C16 ---------------------------------------------------------------
\* a worker thread that start_threads has started (main.py:356-365): it is
\* somewhere in its function, or has ended
Started(pc) == pc # "unstarted"

\* C16: when the camera could not be initialised, no worker thread has been
\* started and the camera calls nothing back.
C16_NoPartialStartup ==
    Tis = NoCamera
    => /\ ~Started(wr_pc) /\ ~Started(an_pc) /\ ~Started(en_pc)
       /\ ~ENABLED on_new_image_encode

\* ---- C17 ---------------------------------------------------------------
\* C17: the callback is never held up, whatever the mode, the length of
\* processing_queue and the state of the writer; each call that has a frame
\* offers it to encode_queue; and under fair scheduling, with frames arriving
\* and encodings succeeding, every version below the bound is followed by a
\* higher one while processing_queue stays full and the store stays
\* unavailable.
C17_VisualizationDecoupled ==
    /\ [](cb_pc = "idle" => ENABLED DeliversFrame)
    /\ [][OffersEncode
          => encode_queue' = IF Len(encode_queue) < EncodeMaxsize
                             THEN Append(encode_queue, frame_copy'[1])
                             ELSE encode_queue]_vars
    /\ \A v \in 0..(MaxVersion - 1) : (frame_id = v) ~> (frame_id > v)

\* a version is published in Triggered mode while processing_queue is full,
\* the store is unavailable and the writer is in its failure handler
C17_Witness ==
    /\ frame_id = 1 /\ IS_TRIGGER_MODE
    /\ Len(processing_queue) = ProcessingMaxsize
    /\ ~store_up /\ wr_pc = "except"

\* ---- C18 ---------------------------------------------------------------
\* the place of a frame in the camera's run, and of the frame of the k-th
\* publish (the first byte of a publish is the frame's peak)
RunIndex(f) == CHOOSE i \in 1..Len(Run) : Run[i] = f
PubIndex(k) == RunIndex([peak |-> pubs[k][1]])

\* the frames of q are in the order of the run, and all later than held
InRunOrder(q) ==
    \A i, j \in 1..Len(q) : i < j => RunIndex(q[i]) < RunIndex(q[j])
LaterThan(q, held) ==
    held # None => \A i \in 1..Len(q) : RunIndex(held[1]) < RunIndex(q[i])

\* a step that changes q either appends one item or hands its head to got
FifoStep(q, qNext, got) ==
    qNext # q
    => \/ qNext # <<>> /\ qNext = Append(q, qNext[Len(qNext)])
       \/ q # <<>> /\ qNext = Tail(q) /\ got = <<Head(q)>>

\* C18: in each of the three queues the retained items come out in the order
\* in which they went in: the queued frames are always in the order of the
\* camera's run and later in it than the frame their worker holds and than
\* every frame published before; every change of a queue appends at its tail
\* or hands its head to the worker.  With the six frames delivered before any
\* dequeue, encode_queue holds the first five in order: the sixth was dropped.
C18_Fifo ==
    /\ [](/\ InRunOrder(encode_queue) /\ LaterThan(encode_queue, frame)
          /\ InRunOrder(processing_queue)
          /\ LaterThan(processing_queue, frame_to_process)
          /\ \A k \in 1..Len(pubs) :
               /\ \A l \in 1..Len(pubs) : k < l => PubIndex(k) < PubIndex(l)
               /\ \A i \in 1..Len(encode_queue) :
                    PubIndex(k) < RunIndex(encode_queue[i])
          /\ camera = <<<<>>>> /\ cb_pc = "idle" /\ encode_queue # <<>>
             /\ Head(encode_queue) = Run[1]
             => encode_queue = SubSeq(Run, 1, EncodeMaxsize))
    /\ [][/\ FifoStep(encode_queue, encode_queue', frame')
          /\ FifoStep(processing_queue, processing_queue',
                      IF an_pc' = "loop" THEN <<Head(processing_queue)>>
                      ELSE frame_to_process')
          /\ FifoStep(write_queue, write_queue', data_row')]_vars

\* all six frames were delivered before the encoder's first dequeue: it holds
\* the first, the next four wait and the sixth is gone; the analysis worker
\* holds the second admitted frame and the writer the first row
C18_Witness ==
    /\ camera = <<<<>>>> /\ frame = <<Run[1]>>
    /\ encode_queue = SubSeq(Run, 2, EncodeMaxsize)
    /\ frame_to_process = <<Run[4]>>
    /\ data_row # None

\* ---- C20 ---------------------------------------------------------------
\* C20: processing_queue grows only by the callback's offer, by one frame, and
\* the offer ends that callback; and a callback that is not already past its
\* mode test gets past it only when the mode it reads is Triggered.  Hence,
\* with the one acquisition thread, from the moment a change to Continuous is
\* complete and for as long as the mode stays Continuous, the only frame
\* that can still be enqueued is the one whose callback was past its mode
\* test at that moment.
C20_OneInFlight ==
    [][/\ Len(processing_queue') > Len(processing_queue)
          => /\ OffersProcessing
             /\ Len(processing_queue') = Len(processing_queue) + 1
       /\ OffersProcessing => cb_pc' = "idle"
       /\ cb_pc # "put" /\ cb_pc' = "put" => IS_TRIGGER_MODE]_vars

\* the change to Continuous is complete and the queue was cleared, while a
\* callback that had read the mode as Triggered is about to offer its frame
C20_Witness ==
    /\ sm_pc = "idle" /\ sm_mode = "continuous" /\ sm_response = "success"
    /\ ~IS_TRIGGER_MODE /\ processing_queue = <<>>
    /\ cb_pc = "put"

\* ---- C21 ---------------------------------------------------------------
\* set_mode has returned success for a request for Continuous and no later
\* request has arrived; the mode is then Continuous
ContinuousReturned ==
    /\ sm_pc = "idle" /\ sm_mode = "continuous" /\ sm_response = "success"
    /\ ~IS_TRIGGER_MODE

\* C21: once a change to Continuous has returned, and while the mode stays
\* Continuous, the shared centroid estimate (cX, cY) is unknown, whatever
\* the analysis worker was doing when the change was made.
C21_CentroidStaysUnknown == ContinuousReturned => cX = None /\ cY = None

\* ---- C22 ---------------------------------------------------------------
\* the frame objects a holder refers to
Range(q) == {q[k] : k \in 1..Len(q)}
VisualizationPath == Range(ids.encode_queue) \cup ({ids.frame} \ {0})
AnalysisPath == Range(ids.processing_queue) \cup ({ids.frame_to_process} \ {0})

\* C22: no frame object is reachable from both the visualization path
\* (encode_queue or the encoder) and the analysis path (processing_queue or the
\* analysis worker) at the same time, and the callback holds no frame that it
\* has put on a queue.
C22_ExclusiveOwnership ==
    ids # None
    => /\ VisualizationPath \cap AnalysisPath = {}
       /\ ids.frame_copy \notin VisualizationPath \cup AnalysisPath

====
